---- MODULE Spec2Model ----
(***************************************************************************)
(* Session provider of src/contexts/AuthContext.tsx (AuthProvider).        *)
(*                                                                         *)
(* The provider mirrors the session of an external auth client in three    *)
(* React state cells (user, isAuthenticated, loading).  Every step below   *)
(* is one run of provider code between two awaits; the state writes of    *)
(* one such run are committed together (one render), so every state of    *)
(* the model is a state a consumer of the context can read.                *)
(*                                                                         *)
(* The auth client is the environment: it holds the current session,       *)
(* answers getSession / signInWithPassword / signOut with any of their     *)
(* outcomes, and queues auth-change events that are delivered to the       *)
(* subscribed callback later, in order.                                    *)
(*                                                                         *)
(* Spec is one mounted provider; ConsumerSpec adds a consumer calling      *)
(* checkAdminStatus(); LifecycleSpec adds unmounting and remounting.       *)
(* FormSpec is the post editor form (BlogForm) of the same file.           *)
(***************************************************************************)
EXTENDS Integers, Sequences, FiniteSets

(* ------------------------------ bounds --------------------------------- *)

\* Longest queue of auth-change events not yet delivered to the callback.
MaxEvents == 2

\* Cap on the count of live auth-change subscriptions (the code keeps it at
\* one per mounted provider).
MaxSubscriptions == 2

(* ------------------------------ values --------------------------------- *)

\* user === null, session === null
NoUser == "null"

\* A user record is represented by the one field the provider reads: email.
AdminEmails == {"admin@example.com", "admin"}
OtherEmails == {"user@example.com", "Admin@example.com"}
Emails == AdminEmails \cup OtherEmails

\* error.message of an error the client returns or throws ("" : no message)
Messages == {"", "Invalid login credentials"}

\* result.error of { success: true }: the key is absent
NoError == "undefined"

\* what a login call resolves to; NoResult while it has not resolved
NoResult == [success |-> FALSE, error |-> "unresolved"]

\* outcomes of supabase.auth.getSession(), decided when it settles
NoCheck == [kind |-> "none", session |-> NoUser]

\* outcomes of supabase.auth.signInWithPassword()
NoOutcome == [kind |-> "none", email |-> NoUser, message |-> ""]
SignInOutcomes ==
    [kind : {"accept"}, email : Emails, message : {""}]
        \cup [kind : {"error", "throw"}, email : {NoUser}, message : Messages]

\* outcomes of supabase.auth.signOut(): resolves { error: null }, resolves
\* { error }, or rejects
SignOutOutcomes == [kind : {"ok", "error", "throw"}, message : Messages]

(* --------------------------- BlogPost values --------------------------- *)

\* the fields of a BlogPost that a control of the form edits (all but id)
Fields == {"title", "category", "author", "date", "excerpt", "content", "image"}

\* the controls that carry `required` (the Select of category does not)
RequiredFields == Fields \ {"category"}

\* the SelectItem values of the category Select
Categories == {"Design", "Development", "Marketing", "Business", "Technology"}

\* what a user types into a text control ("" : the control is emptied)
TextValues == {"", "x"}

\* e.target.value / the Select's value a control can deliver for a field
Inputs(f) == IF f = "category" THEN Categories ELSE TextValues

\* a new post (id "" : not yet created) and two existing ones
BlankPost ==
    [id |-> "", title |-> "", category |-> "", author |-> "", date |-> "",
     excerpt |-> "", content |-> "", image |-> ""]
InitialPosts ==
    { BlankPost,
      [id |-> "0", title |-> "Hello", category |-> "Design", author |-> "Ann",
       date |-> "2024-01-01", excerpt |-> "e0", content |-> "c0",
       image |-> "i0"],
      [id |-> "42", title |-> "World", category |-> "Business",
       author |-> "Bob", date |-> "2024-02-02", excerpt |-> "e42",
       content |-> "c42", image |-> "i42"] }

\* onSubmit was not called in the last step
NoPost ==
    [id |-> "<none>", title |-> "", category |-> "", author |-> "", date |-> "",
     excerpt |-> "", content |-> "", image |-> ""]

\* what the variables of the form hold while no BlogForm is rendered
NoForm == "unrendered"

\* no control has written the field since the scratch copy was initialised
Unwritten == "<unwritten>"
NothingWritten == [f \in Fields |-> Unwritten]

VARIABLES
    user,             \* useState user
    isAuthenticated,  \* useState isAuthenticated
    loading,          \* useState loading
    session,          \* the client's current session (its user), or NoUser
    events,           \* auth-change events emitted and not yet delivered
    checkPc,          \* checkSession: "pending", "settled", "done"
    checkResult,      \* what getSession settled with
    sessionReported,  \* some delivered auth-change event carried a session
    loginPc,          \* login: "idle", "signIn", "rollback", "done"
    loginUser,        \* `user` of the render whose login closure is running
    loginOutcome,     \* what signInWithPassword settled with
    loginResult,      \* what login resolved to
    loginToasts,      \* toasts emitted by the running / last login call
    logoutPc,         \* logout called by a consumer: "idle", "signOut", "done"
    logoutOutcome,    \* what its signOut settled with
    logoutToasts,     \* toasts emitted by the running / last logout call
    mounted,          \* the AuthProvider is mounted
    subscriptions,    \* live onAuthStateChange subscriptions of the provider
    adminResult,      \* what checkAdminStatus() returned, if the last step
                      \* was a consumer's call of it
    initialPost,      \* BlogForm prop initialPost
    post,             \* BlogForm useState post (the scratch copy)
    effectPending,    \* the effect on [initialPost] has yet to run
    written,          \* per field, the value last written by its control
                      \* since the scratch copy was last (re)initialised
    discarded,        \* the last run of the effect replaced a scratch copy
                      \* that carried edits
    lastCall,         \* the caller's function the last step invoked
    submitted         \* the record the last step handed to onSubmit

vars == <<user, isAuthenticated, loading, session, events, checkPc, checkResult,
          sessionReported, loginPc, loginUser, loginOutcome, loginResult,
          loginToasts, logoutPc, logoutOutcome, logoutToasts,
          mounted, subscriptions, adminResult,
          initialPost, post, effectPending, written, discarded, lastCall,
          submitted>>

providerVars == <<user, isAuthenticated, loading>>
checkVars == <<checkPc, checkResult>>
loginVars == <<loginPc, loginUser, loginOutcome, loginResult, loginToasts>>
logoutVars == <<logoutPc, logoutOutcome, logoutToasts>>
mountVars == <<mounted, subscriptions>>
formVars == <<initialPost, post, effectPending, written, discarded, lastCall,
              submitted>>
authVars == <<providerVars, session, events, checkVars, sessionReported,
              loginVars, logoutVars, mountVars, adminResult>>

\* checkAdminStatus() was not called in the last step
NoAnswer == {}

\* what every step of the provider other than a checkAdminStatus() call,
\* mount or unmount leaves of the rest of the state
authFrame ==
    /\ adminResult' = NoAnswer
    /\ UNCHANGED <<mountVars, formVars>>

(* ------------------------------ helpers -------------------------------- *)

\* a || b on strings: the empty string is falsy
OrElse(a, b) == IF a = "" THEN b ELSE a

\* an allow-list that forgot its second literal
checkAdminStatus_FirstOnly(u) ==
    IF u = NoUser THEN FALSE ELSE u = "admin@example.com"

\* checkAdminStatus, as a function of the `user` its closure captured
checkAdminStatus(u) ==
    IF u = NoUser THEN FALSE
    ELSE u = "admin@example.com" \/ u = "admin"

\* onAuthStateChange callback: setUser(session?.user || null)
callbackUser(s) == IF s = NoUser THEN NoUser ELSE s

\* a callback that reports every event as a session: setIsAuthenticated(true)
callbackIsAuthenticated_Always(s) == TRUE

\* onAuthStateChange callback: setIsAuthenticated(!!session)
callbackIsAuthenticated(s) == s # NoUser

\* a callback that restarts the loading phase: setLoading(true)
callbackLoading_Restart(l) == TRUE

\* a callback that also ends the loading phase: setLoading(false)
callbackLoading_Cleared(l) == FALSE

\* onAuthStateChange callback: loading is not written
callbackLoading(l) == l

\* setLoading(false) as the last statement of the try block instead of in
\* finally: skipped when getSession returns an error or throws
checkSessionLoading_InTry(kind) == kind # "ok"

\* checkSession: `finally { setLoading(false) }`, whatever getSession did
checkSessionLoading(kind) == FALSE

\* a catch block that returns error.message without the fallback
loginCatchResult_NoFallback(m) == [success |-> FALSE, error |-> m]

\* a catch block that falls through to the success return
loginCatchResult_Success(m) == [success |-> TRUE, error |-> NoError]

\* login's catch block: error.message || 'Login failed'
loginCatchResult(m) == [success |-> FALSE, error |-> OrElse(m, "Login failed")]

\* login's rollback branch
loginRollbackResult == [success |-> FALSE, error |-> "Not authorized as admin"]

\* login's success branch
loginSuccessResult == [success |-> TRUE, error |-> NoError]

\* the variant of a toast: 'destructive' is passed with the two failure
\* titles only
toastVariant(title) ==
    IF title \in {"Login failed", "Logout failed"} THEN "destructive"
    ELSE "default"

\* a cleanup that does not unsubscribe
cleanupSubscriptions_Leak(n) == n

\* logout's body after `await supabase.auth.signOut()`: the returned
\* { error } is not inspected; only a rejection reaches the catch block
logoutToast(kind) ==
    IF kind = "throw" THEN "Logout failed" ELSE "Logged out"

\* effect of signOut on the client: a successful sign-out removes the
\* session and emits SIGNED_OUT; a failed one leaves the client as it was
signOutSession(kind, s) == IF kind = "ok" THEN NoUser ELSE s
signOutEvents(kind, q) == IF kind = "ok" THEN Append(q, NoUser) ELSE q

(* ------------------------------- Init ---------------------------------- *)

\* the provider right after its first render, with its effect run
authInit ==
    /\ user = NoUser
    /\ isAuthenticated = FALSE
    /\ loading = TRUE
    /\ session \in {NoUser} \cup Emails
    /\ events = <<>>
    /\ checkPc = "pending"
    /\ checkResult = NoCheck
    /\ sessionReported = FALSE
    /\ loginPc = "idle"
    /\ loginUser = NoUser
    /\ loginOutcome = NoOutcome
    /\ loginResult = NoResult
    /\ loginToasts = <<>>
    /\ logoutPc = "idle"
    /\ logoutOutcome = [kind |-> "none", message |-> ""]
    /\ logoutToasts = <<>>
    /\ mounted = TRUE
    /\ subscriptions = 1
    /\ adminResult = NoAnswer

\* no BlogForm is rendered: there is no prop and no scratch copy
formIdle ==
    /\ initialPost = NoForm
    /\ post = NoForm
    /\ effectPending = FALSE
    /\ written = NoForm
    /\ discarded = FALSE
    /\ lastCall = "none"
    /\ submitted = NoForm

Init == authInit /\ formIdle

(* ------------------------------ actions -------------------------------- *)

\* supabase.auth.getSession() settles: it returns the session the client
\* holds now (or none), returns an error, or throws.
GetSessionSettle ==
    /\ checkPc = "pending"
    /\ \E kind \in {"ok", "error", "throw"} :
          checkResult' = [kind |-> kind,
                          session |-> IF kind = "ok" THEN session ELSE NoUser]
    /\ checkPc' = "settled"
    /\ UNCHANGED <<providerVars, session, events, sessionReported,
                   loginVars, logoutVars>>
    /\ authFrame

\* checkSession resumes after the await.
checkSession ==
    /\ checkPc = "settled"
    /\ IF checkResult.kind = "ok" /\ checkResult.session # NoUser
          THEN /\ user' = checkResult.session
               /\ isAuthenticated' = TRUE
          ELSE UNCHANGED <<user, isAuthenticated>>
    /\ loading' = checkSessionLoading(checkResult.kind)
    /\ checkPc' = "done"
    /\ UNCHANGED <<checkResult, session, events, sessionReported,
                   loginVars, logoutVars>>
    /\ authFrame

\* The client delivers the oldest pending auth-change event to the callback.
onAuthStateChange ==
    /\ events # <<>>
    /\ subscriptions > 0
    /\ user' = callbackUser(Head(events))
    /\ isAuthenticated' = callbackIsAuthenticated(Head(events))
    /\ loading' = callbackLoading(loading)
    /\ events' = Tail(events)
    /\ sessionReported' = (sessionReported \/ Head(events) # NoUser)
    /\ UNCHANGED <<session, checkVars, loginVars, logoutVars>>
    /\ authFrame

\* A consumer calls login(email, password) of the current render: the
\* closure holds this render's `user`.  Runs up to the first await.
loginCall ==
    /\ loginPc \in {"idle", "done"}
    /\ loginPc' = "signIn"
    /\ loginUser' = user
    /\ loginOutcome' = NoOutcome
    /\ loginResult' = NoResult
    /\ loginToasts' = <<>>
    /\ UNCHANGED <<providerVars, session, events, checkVars, sessionReported,
                   logoutVars>>
    /\ authFrame

\* signInWithPassword settles and login resumes, up to its return or to the
\* await inside the logout() of the rollback.
loginSignIn(o) ==
    /\ loginPc = "signIn"
    /\ loginOutcome' = o
    /\ IF o.kind = "accept"
          THEN /\ Len(events) < MaxEvents
               /\ session' = o.email
               /\ events' = Append(events, o.email)
               /\ IF checkAdminStatus(loginUser)
                     THEN /\ loginToasts' = <<"Login successful">>
                          /\ loginResult' = loginSuccessResult
                          /\ loginPc' = "done"
                     ELSE /\ loginPc' = "rollback"
                          /\ UNCHANGED <<loginToasts, loginResult>>
          ELSE /\ loginToasts' = <<"Login failed">>
               /\ loginResult' = loginCatchResult(o.message)
               /\ loginPc' = "done"
               /\ UNCHANGED <<session, events>>
    /\ UNCHANGED <<providerVars, checkVars, sessionReported, loginUser,
                   logoutVars>>
    /\ authFrame

\* The signOut of the rollback settles; logout() finishes and login returns.
loginRollback(o) ==
    /\ loginPc = "rollback"
    /\ o.kind = "ok" => Len(events) < MaxEvents
    /\ session' = signOutSession(o.kind, session)
    /\ events' = signOutEvents(o.kind, events)
    /\ loginToasts' = Append(loginToasts, logoutToast(o.kind))
    /\ loginResult' = loginRollbackResult
    /\ loginPc' = "done"
    /\ UNCHANGED <<providerVars, checkVars, sessionReported, loginUser,
                   loginOutcome, logoutVars>>
    /\ authFrame

\* A consumer calls logout().  Runs up to the await.
logoutCall ==
    /\ logoutPc \in {"idle", "done"}
    /\ logoutPc' = "signOut"
    /\ logoutOutcome' = [kind |-> "none", message |-> ""]
    /\ logoutToasts' = <<>>
    /\ UNCHANGED <<providerVars, session, events, checkVars, sessionReported,
                   loginVars>>
    /\ authFrame

\* signOut settles and logout() finishes.
logout(o) ==
    /\ logoutPc = "signOut"
    /\ o.kind = "ok" => Len(events) < MaxEvents
    /\ session' = signOutSession(o.kind, session)
    /\ events' = signOutEvents(o.kind, events)
    /\ logoutOutcome' = o
    /\ logoutToasts' = <<logoutToast(o.kind)>>
    /\ logoutPc' = "done"
    /\ UNCHANGED <<providerVars, checkVars, sessionReported, loginVars>>
    /\ authFrame

\* A consumer calls checkAdminStatus() of the current render.
checkAdminCall ==
    /\ mounted
    /\ adminResult' = {checkAdminStatus(user)}
    /\ UNCHANGED <<providerVars, session, events, checkVars, sessionReported,
                   loginVars, logoutVars, mountVars, formVars>>

\* useEffect cleanup: authListener?.subscription.unsubscribe()
cleanupSubscriptions(n) == n - 1

\* useEffect body: supabase.auth.onAuthStateChange(...) adds a subscription
effectSubscriptions(n) == n + 1

\* The provider unmounts: the cleanup of the effect runs and React discards
\* the state cells; a checkSession still awaiting getSession can only call
\* the setters of the discarded instance, which does nothing.
unmount ==
    /\ mounted
    /\ mounted' = FALSE
    /\ subscriptions' = cleanupSubscriptions(subscriptions)
    /\ user' = NoUser
    /\ isAuthenticated' = FALSE
    /\ loading' = TRUE
    /\ checkPc' = "unmounted"
    /\ checkResult' = NoCheck
    /\ sessionReported' = FALSE
    /\ adminResult' = NoAnswer
    /\ UNCHANGED <<session, events, loginVars, logoutVars, formVars>>

\* The provider mounts again: fresh state cells, and the effect runs:
\* checkSession() up to its await, then the subscription.
mount ==
    /\ ~mounted
    /\ subscriptions < MaxSubscriptions
    /\ mounted' = TRUE
    /\ subscriptions' = effectSubscriptions(subscriptions)
    /\ user' = NoUser
    /\ isAuthenticated' = FALSE
    /\ loading' = TRUE
    /\ checkPc' = "pending"
    /\ checkResult' = NoCheck
    /\ sessionReported' = FALSE
    /\ adminResult' = NoAnswer
    /\ UNCHANGED <<session, events, loginVars, logoutVars, formVars>>

\* The client emits the oldest pending event while nothing is subscribed.
eventUnheard ==
    /\ events # <<>>
    /\ subscriptions = 0
    /\ events' = Tail(events)
    /\ UNCHANGED <<providerVars, session, checkVars, sessionReported,
                   loginVars, logoutVars>>
    /\ authFrame

Next ==
    \/ GetSessionSettle
    \/ checkSession
    \/ onAuthStateChange
    \/ loginCall
    \/ \E o \in SignInOutcomes : loginSignIn(o)
    \/ \E o \in SignOutOutcomes : loginRollback(o)
    \/ logoutCall
    \/ \E o \in SignOutOutcomes : logout(o)

Spec == Init /\ [][Next]_vars

\* getSession settles, and the continuation of checkSession then runs.
FairSpec == Spec /\ WF_vars(GetSessionSettle) /\ WF_vars(checkSession)

\* the mounted provider with a consumer that also calls checkAdminStatus()
ConsumerNext == Next \/ checkAdminCall
ConsumerSpec == Init /\ [][ConsumerNext]_vars

\* the provider across unmounts and remounts
LifecycleNext == Next \/ unmount \/ mount \/ eventUnheard
LifecycleSpec == Init /\ [][LifecycleNext]_vars

(* ------------------------------ BlogForm ------------------------------- *)

\* a control whose handler writes the title instead of its own field
fieldWrite_WrongField(p, f, v) ==
    IF f = "author" THEN [p EXCEPT !["title"] = v] ELSE [p EXCEPT ![f] = v]

\* a handler that spreads the prop instead of the scratch copy
fieldWrite_FromInitial(p, f, v) == [initialPost EXCEPT ![f] = v]

\* onChange / onValueChange of the control of field f: {...post, [f]: value}
fieldWrite(p, f, v) == [p EXCEPT ![f] = v]

\* an effect that keeps the scratch copy it finds
effectPost_Keep(p, ip) == p

\* useEffect(() => setPost(initialPost), [initialPost])
effectPost(p, ip) == ip

\* truthiness of a string: only the empty string is falsy
Truthy(str) == str # ""

\* a label that tests the id as a number: '0' counts as not created
submitLabel_Numeric(p) ==
    IF p.id \in {"", "0"} THEN "Publish Post" ELSE "Update Post"

\* {post.id ? "Update Post" : "Publish Post"}
submitLabel(p) == IF Truthy(p.id) THEN "Update Post" ELSE "Publish Post"

\* the browser submits the form only when every `required` control is filled
formValid(p) == \A f \in RequiredFields : p[f] # ""

\* the fields a control has written since the scratch copy was initialised
WrittenFields == {f \in Fields : written[f] # Unwritten}

\* the form right after its first render: useState(initialPost), and the
\* effect of the mount still to run
FormInit ==
    /\ authInit
    /\ session = NoUser
    /\ initialPost \in InitialPosts
    /\ post = initialPost
    /\ effectPending = TRUE
    /\ written = NothingWritten
    /\ discarded = FALSE
    /\ lastCall = "none"
    /\ submitted = NoPost

\* The caller renders the form with another record as initialPost (the
\* same values in a new object count): the form renders with the scratch
\* copy it has; the effect runs after the render.
changeInitialPost(p) ==
    /\ ~effectPending
    /\ initialPost' = p
    /\ effectPending' = TRUE
    /\ lastCall' = "none"
    /\ submitted' = NoPost
    /\ UNCHANGED <<post, written, discarded, authVars>>

\* The effect on [initialPost] runs and the form renders again.  React runs
\* it before it handles the next event.
resetEffect ==
    /\ effectPending
    /\ post' = effectPost(post, initialPost)
    /\ effectPending' = FALSE
    /\ written' = NothingWritten
    /\ discarded' = (WrittenFields # {} /\ post # initialPost)
    /\ lastCall' = "none"
    /\ submitted' = NoPost
    /\ UNCHANGED <<initialPost, authVars>>

\* The control of field f delivers value v; the form renders again.
onChange(f, v) ==
    /\ ~effectPending
    /\ post' = fieldWrite(post, f, v)
    /\ written' = [written EXCEPT ![f] = v]
    /\ lastCall' = "none"
    /\ submitted' = NoPost
    /\ UNCHANGED <<initialPost, effectPending, discarded, authVars>>

\* The form is submitted: handleSubmit calls onSubmit(post).
handleSubmit ==
    /\ ~effectPending
    /\ formValid(post)
    /\ lastCall' = "onSubmit"
    /\ submitted' = post
    /\ UNCHANGED <<initialPost, post, effectPending, written, discarded,
                   authVars>>

\* The Cancel button is clicked: onClick={onCancel}.
onCancel ==
    /\ ~effectPending
    /\ lastCall' = "onCancel"
    /\ submitted' = NoPost
    /\ UNCHANGED <<initialPost, post, effectPending, written, discarded,
                   authVars>>

FormNext ==
    \/ \E p \in InitialPosts : changeInitialPost(p)
    \/ resetEffect
    \/ \E f \in Fields : \E v \in Inputs(f) : onChange(f, v)
    \/ handleSubmit
    \/ onCancel

FormSpec == FormInit /\ [][FormNext]_vars

TypeOK ==
    /\ user \in {NoUser} \cup Emails
    /\ isAuthenticated \in BOOLEAN
    /\ loading \in BOOLEAN
    /\ session \in {NoUser} \cup Emails
    /\ Len(events) <= MaxEvents
    /\ checkPc \in {"pending", "settled", "done", "unmounted"}
    /\ loginPc \in {"idle", "signIn", "rollback", "done"}
    /\ logoutPc \in {"idle", "signOut", "done"}

(* ------------------------------ claims --------------------------------- *)

\* no logout() was ever called by a consumer, and the startup check found
\* no session (so it wrote neither user nor isAuthenticated)
NoOtherWriter ==
    /\ logoutPc = "idle"
    /\ checkPc = "done"
    /\ checkResult.session = NoUser

loginAccepted == loginPc = "done" /\ loginOutcome.kind = "accept"
loginRejected == loginPc = "done" /\ loginOutcome.kind \in {"error", "throw"}

\* C1: when signInWithPassword accepts credentials of admin@example.com,
\* login returns success:true, from every provider state it is called in;
\* and once the events are delivered (nothing else having signed out)
\* isAuthenticated is true.
C1_AdminLoginSucceeds ==
    (loginAccepted /\ loginOutcome.email = "admin@example.com")
        => /\ loginResult = loginSuccessResult
           /\ (events = <<>> /\ logoutPc = "idle") => isAuthenticated

\* C2: when signInWithPassword accepts credentials of a user whose email is
\* not on the allow-list, login returns success:false with the error
\* "Not authorized as admin", from every provider state it is called in.
C2_NonAdminLoginRefused ==
    (loginAccepted /\ loginOutcome.email \notin AdminEmails)
        => loginResult = [success |-> FALSE, error |-> "Not authorized as admin"]

\* C3: after login has returned for accepted credentials of a user not on
\* the allow-list and the events are delivered, isAuthenticated is false,
\* user is null and checkAdminStatus() is false, whatever the rollback's
\* signOut reported.
C3_NonAdminRolledBack ==
    (/\ loginAccepted
     /\ loginOutcome.email \notin AdminEmails
     /\ events = <<>>
     /\ NoOtherWriter)
        => /\ ~isAuthenticated
           /\ user = NoUser
           /\ ~checkAdminStatus(user)

\* C4: fail closed: in no state is isAuthenticated true while the held
\* user's email is outside the allow-list.
C4_FailClosed ==
    isAuthenticated => user \in AdminEmails

\* C5: once a logout() has completed and the events are delivered, no other
\* operation being in flight, user is null and isAuthenticated is false,
\* whatever signOut reported.
C5_LogoutClears ==
    (/\ logoutPc = "done"
     /\ events = <<>>
     /\ checkPc = "done"
     /\ loginPc \in {"idle", "done"})
        => /\ user = NoUser
           /\ ~isAuthenticated

\* the step in which login returns through its catch block
loginRejectStep ==
    /\ loginPc = "signIn"
    /\ loginPc' = "done"
    /\ loginOutcome'.kind \in {"error", "throw"}

\* C6 as stated: after a login that signInWithPassword rejected, the result
\* is success:false and isAuthenticated is false.
C6_RejectedLoginUnauthenticated ==
    loginRejected => (loginResult.success = FALSE /\ ~isAuthenticated)

\* C6, amended: when signInWithPassword returns or throws an error, login
\* returns success:false and writes neither isAuthenticated nor user, so
\* isAuthenticated stays false if it was false and stays true if a session
\* was already held.
C6_RejectedLoginFails ==
    /\ [](loginRejected => loginResult.success = FALSE)
    /\ [][loginRejectStep =>
            /\ isAuthenticated' = isAuthenticated
            /\ user' = user]_vars

C6_Witness ==
    /\ loginRejected
    /\ loginOutcome.kind = "throw"
    /\ loginResult.success = FALSE
    /\ ~isAuthenticated
    /\ checkPc = "done"

\* C7: in every state isAuthenticated is true exactly when user is not null.
C7_UserAgrees ==
    isAuthenticated <=> user # NoUser

C7_Witness ==
    /\ isAuthenticated
    /\ user # NoUser
    /\ checkPc = "settled"
    /\ loginPc = "rollback"
    /\ logoutPc = "signOut"

\* C8: a login that has returned resolved to a record with a boolean success
\* flag, and when success is false its error is a non-empty message, for
\* every outcome of signInWithPassword and of the rollback's signOut.
C8_LoginResolves ==
    loginPc = "done"
        => /\ loginResult.success \in BOOLEAN
           /\ loginResult # NoResult
           /\ ~loginResult.success => loginResult.error \notin {"", NoError}

C8_Witness ==
    /\ loginPc = "done"
    /\ loginOutcome.kind = "throw"
    /\ loginOutcome.message = ""
    /\ loginResult = [success |-> FALSE, error |-> "Login failed"]

checkFailed == checkPc = "done" /\ checkResult.kind \in {"error", "throw"}

\* C9: loading eventually becomes false, whatever getSession settles with;
\* and when the startup check failed and no auth-change event reported a
\* session, user is null and isAuthenticated is false.
C9_LoadingResolves ==
    /\ <>(~loading)
    /\ []((checkFailed /\ ~sessionReported)
            => (user = NoUser /\ ~isAuthenticated))

C9_Witness ==
    /\ checkFailed
    /\ checkResult.kind = "throw"
    /\ ~loading
    /\ ~sessionReported
    /\ session # NoUser
    /\ user = NoUser

\* C10: loading is true exactly while the startup check has not resumed
\* after getSession, and no step sets it back to true.
C10_LoadingOnlyAtStartup ==
    /\ [](loading <=> checkPc # "done")
    /\ [][~loading => ~loading']_vars

C10_Witness ==
    /\ ~loading
    /\ checkPc = "done"
    /\ sessionReported
    /\ loginPc = "done"
    /\ logoutPc = "done"

\* C11: checkAdminStatus() answers false when no user is held, and otherwise
\* true exactly when the held user's email is 'admin@example.com' or
\* 'admin'; the call changes none of user, isAuthenticated and loading.
C11_CheckAdminStatus ==
    /\ [](adminResult # NoAnswer =>
            /\ user = NoUser => adminResult = {FALSE}
            /\ user # NoUser =>
                 adminResult = {user = "admin@example.com" \/ user = "admin"})
    /\ [][checkAdminCall => UNCHANGED <<user, isAuthenticated, loading>>]_vars

C11_Witness ==
    /\ adminResult = {TRUE}
    /\ user = "admin"
    /\ isAuthenticated

\* a toast of the last login call that reports success / failure
loginSuccessToast ==
    \E i \in 1..Len(loginToasts) : toastVariant(loginToasts[i]) = "default"
loginFailureToast ==
    \E i \in 1..Len(loginToasts) : toastVariant(loginToasts[i]) = "destructive"

\* C15: a login that has returned emitted a notification matching its
\* result: a success notification and no failure notification for
\* success:true, a failure notification and no success-style notification
\* for success:false, the not-admin path included.
C15_LoginToastMatchesResult ==
    loginPc = "done" =>
        /\ loginResult.success => (loginSuccessToast /\ ~loginFailureToast)
        /\ ~loginResult.success => (loginFailureToast /\ ~loginSuccessToast)

\* C16: a logout() whose signOut returned an error or threw has emitted the
\* failure notification and not the "Logged out" notification.
C16_LogoutFailureNotified ==
    (logoutPc = "done" /\ logoutOutcome.kind \in {"error", "throw"})
        => logoutToasts = <<"Logout failed">>

\* C17 as stated: the auth-change callback writes loading as the startup
\* check does, so an event delivered to it leaves loading false.
C17_CallbackSetsLoading ==
    [][onAuthStateChange => ~loading']_vars

\* C17, amended: the startup check and the callback both write user and
\* isAuthenticated, but only the startup check writes loading: an event
\* delivered while the check is pending leaves loading true, and loading
\* turns false in the step in which checkSession resumes, and in no other.
C17_OnlyCheckWritesLoading ==
    /\ [][onAuthStateChange => loading' = loading]_vars
    /\ [][(loading /\ ~loading') => checkPc' = "done" /\ checkPc = "settled"]_vars

C17_Witness ==
    /\ loading
    /\ checkPc = "settled"
    /\ sessionReported
    /\ isAuthenticated

\* C18: once a startup check that read the client's session has resumed and
\* every emitted event is delivered, isAuthenticated is true exactly when
\* the client holds a session, and user is that session's user; a session
\* the check read before a later sign-out is not left showing.
C18_ConvergesToClient ==
    (checkPc = "done" /\ checkResult.kind = "ok" /\ events = <<>>)
        => /\ isAuthenticated <=> session # NoUser
           /\ user = session

\* C19: a mounted provider holds exactly one subscription and an unmounted
\* one none, across every sequence of mounts and unmounts, and the
\* auth-change callback runs only while the provider is mounted.
C19_SubscriptionScoped ==
    /\ [](subscriptions = IF mounted THEN 1 ELSE 0)
    /\ [][onAuthStateChange => mounted]_vars
    /\ [][(mounted /\ ~mounted') => subscriptions' = 0]_vars

C19_Witness ==
    /\ mounted
    /\ subscriptions = 1
    /\ checkPc = "pending"
    /\ loginUser # NoUser
    /\ ~sessionReported
    /\ events # <<>>

\* C12: when exactly one field has been edited and the form is submitted,
\* onSubmit receives initialPost with that field replaced by the value
\* entered, every other field and the id as in initialPost.
C12_SingleEditSubmit ==
    (lastCall = "onSubmit" /\ Cardinality(WrittenFields) = 1)
        => \A f \in WrittenFields :
              submitted = [initialPost EXCEPT ![f] = written[f]]

C12_Witness ==
    /\ lastCall = "onSubmit"
    /\ WrittenFields = {"author"}
    /\ submitted.author = "x"
    /\ submitted.title = "Hello"

\* C13: after initialPost changed, the effect resets every field of the
\* scratch copy to the new record, and a submitted record carries, in every
\* field not edited since, the value and the id of the current initialPost.
C13_ResetOnChange ==
    /\ [][(effectPending /\ ~effectPending') => post' = initialPost']_vars
    /\ [](lastCall = "onSubmit" =>
            /\ submitted.id = initialPost.id
            /\ \A f \in Fields \ WrittenFields : submitted[f] = initialPost[f])

C13_Witness ==
    /\ discarded
    /\ lastCall = "onSubmit"
    /\ submitted = initialPost
    /\ initialPost.id = "42"

\* C14: the label of the submit button is "Publish Post" when the id of the
\* scratch record is the empty string and "Update Post" otherwise.
C14_SubmitLabel ==
    /\ post.id = "" => submitLabel(post) = "Publish Post"
    /\ post.id # "" => submitLabel(post) = "Update Post"

C14_Witness ==
    /\ post.id = "0"
    /\ submitLabel(post) = "Update Post"
    /\ WrittenFields # {}
    /\ ~effectPending

\* C20: after any sequence of field updates on one initialPost the scratch
\* record is initialPost with every edited field at its last written value;
\* no control writes id; and the cancel action calls onCancel, not
\* onSubmit, and leaves the scratch record as it was.
C20_ScratchIsInitialPlusEdits ==
    /\ [](~effectPending =>
            /\ post.id = initialPost.id
            /\ \A f \in Fields :
                 post[f] = IF written[f] = Unwritten THEN initialPost[f]
                           ELSE written[f])
    /\ [](lastCall = "onSubmit" => submitted.id = initialPost.id)
    /\ [][lastCall' = "onCancel" => (submitted' = NoPost /\ post' = post)]_vars

C20_Witness ==
    /\ lastCall = "onCancel"
    /\ Cardinality(WrittenFields) = 3
    /\ post.category = "Marketing"
    /\ post.title = ""
    /\ post.id = "42"

====
